---- MODULE Spec2Model ----
(***************************************************************************)
(* Housing-registry backend (e-LACAK Pringsewu): the housing-record store  *)
(* with its verification workflow, the reference data it validates         *)
(* against, the documents of housing records, the backlog tracker, the     *)
(* audit log and the reports that write to it.  Handlers are modelled from *)
(* server/src/handlers (housing_records.ts, gis.ts, reports.ts, audit.ts)  *)
(* and from the backlog handlers; tables from server/src/db/schema.ts;     *)
(* input schemas from server/src/schema.ts; routes from server/src/        *)
(* index.ts.                                                               *)
(***************************************************************************)
EXTENDS Integers, Sequences, FiniteSets, TLC

VARIABLES
    districts,        \* districtsTable: set of district ids
    villages,         \* villagesTable: village id -> district_id
    housing_records,  \* housingRecordsTable: id -> row
    nextId,           \* serial sequence of housing_records.id
    documents,        \* documentsTable: id -> row
    nextDocumentId,   \* serial sequence of documents.id
    backlogs,         \* backlogsTable: id -> row
    nextBacklogId,    \* serial sequence of backlogs.id
    auditLogs,        \* auditLogsTable: sequence of rows, in order of their serial id
    now,              \* wall clock read by new Date()
    ops,              \* number of handler calls made so far
    last,             \* the most recent handler call: op, input, caller, outcome, table before
    pc,               \* position of each concurrent createHousingRecord call
    req               \* input of each concurrent createHousingRecord call

vars == <<districts, villages, housing_records, nextId, documents, nextDocumentId,
          backlogs, nextBacklogId, auditLogs, now, ops, last, pc, req>>

----------------------------------------------------------------------------
(* Bounds of the exploration *)

MaxOps == 3
MaxTime == 1
MaxSupplied == 1
MaxCalls == 2

----------------------------------------------------------------------------
(* Values.  undefined and null of JavaScript are kept apart per type. *)

UndefS == "<undefined>"
NullS == "<null>"
UndefN == -2
NullN == -1

\* JavaScript truthiness of a string-typed / number-typed value
TruthyS(x) == x \notin {UndefS, NullS, ""}
TruthyN(x) == x \notin {UndefN, NullN, 0}

verificationStatusEnum == {"PENDING", "VERIFIED", "REJECTED"}
housingStatusEnum == {"RTLH", "RLH"}
eligibilityCategoryEnum == {"POOR", "VERY_POOR", "MODERATE", "NOT_ELIGIBLE"}

\* Authenticated principals (protectedProcedure rejects a falsy ctx.userId)
Users == {1, 2}

\* Callers of update and delete: updatedBy and deletedBy are never read by the handlers
Editors == {2}

\* Message of the storage layer when housing_records_nik_unique is violated
UniqueViolation == "duplicate key value violates unique constraint housing_records_nik_unique"

NoRow == [id |-> NullN]

----------------------------------------------------------------------------
(* Storage-level queries and constraints *)

\* select from districts where id = d
districtExists(ds, d) == d \in ds

\* select from villages where id = v
villageExists(vs, v) == v \in DOMAIN vs

\* mutant: the district condition of the compound check is dropped
villageInDistrict_noDistrict(vs, v, d) == v \in DOMAIN vs

\* select from villages where id = v and district_id = d
villageInDistrict(vs, v, d) == v \in DOMAIN vs /\ vs[v] = d

\* mutant: the pre-check never finds an existing NIK
existingNik_none(recs, nik) == {}

\* select from housing_records where nik = nik
existingNik(recs, nik) == {id \in DOMAIN recs : recs[id].nik = nik}

\* mutant: the table has no unique constraint on nik
uniqueNik_absent(recs, nik) == TRUE

\* unique('housing_records_nik_unique').on(nik): may a row with this nik be inserted
uniqueNik(recs, nik) == \A id \in DOMAIN recs : recs[id].nik # nik

----------------------------------------------------------------------------
(* createHousingRecord *)

\* x?.toString(): undefined for undefined and for null, else the decimal text
optToString(x) == IF x \in {UndefN, NullN} THEN UndefS ELSE ToString(x)

\* a column left undefined in .values({...}) takes its default, NULL
orDefault(v) == IF v = UndefS THEN NullS ELSE v

\* .values({...}) of the insert, with the column defaults of housingRecordsTable
createValues(input, createdBy, t) ==
    [ head_of_household |-> input.head_of_household,
      nik |-> input.nik,
      housing_status |-> input.housing_status,
      eligibility_category |-> input.eligibility_category,
      verification_status |-> "PENDING",
      district_id |-> input.district_id,
      village_id |-> input.village_id,
      latitude |-> orDefault(optToString(input.latitude)),
      longitude |-> orDefault(optToString(input.longitude)),
      address |-> input.address,
      phone |-> IF TruthyS(input.phone) THEN input.phone ELSE NullS,
      family_members |-> input.family_members,
      monthly_income |-> orDefault(optToString(input.monthly_income)),
      house_condition_score |->
          IF TruthyN(input.house_condition_score) THEN input.house_condition_score ELSE NullN,
      notes |-> IF TruthyS(input.notes) THEN input.notes ELSE NullS,
      verified_by |-> NullN,
      verified_at |-> NullN,
      created_by |-> createdBy,
      created_at |-> t,
      updated_at |-> t,
      id |-> NullN ]

\* db.insert(housingRecordsTable): the serial id is drawn first, then the
\* unique constraint decides whether the row is stored
insertHousingRecord(recs, nid, row) ==
    IF uniqueNik(recs, row.nik)
    THEN [ recs |-> [id \in DOMAIN recs \cup {nid} |->
                        IF id = nid THEN [row EXCEPT !.id = nid] ELSE recs[id]],
           nextId |-> nid + 1,
           outcome |-> "ok" ]
    ELSE [ recs |-> recs, nextId |-> nid + 1, outcome |-> UniqueViolation ]

Failed(recs, nid, msg) == [ recs |-> recs, nextId |-> nid, outcome |-> msg ]

createHousingRecord(ds, vs, recs, nid, input, createdBy, t) ==
    IF ~districtExists(ds, input.district_id)
    THEN Failed(recs, nid, "District not found")
    ELSE IF ~villageInDistrict(vs, input.village_id, input.district_id)
    THEN Failed(recs, nid, "Village not found or does not belong to the specified district")
    ELSE IF existingNik(recs, input.nik) # {}
    THEN Failed(recs, nid, "NIK already exists")
    ELSE insertHousingRecord(recs, nid, createValues(input, createdBy, t))

----------------------------------------------------------------------------
(* updateHousingRecord *)

significantFields ==
    {"head_of_household", "housing_status", "eligibility_category", "address", "family_members"}

numberFields ==
    {"id", "district_id", "village_id", "latitude", "longitude", "family_members",
     "monthly_income", "house_condition_score"}

\* input[field] !== undefined
supplied(input, field) ==
    IF field \in numberFields THEN input[field] # UndefN ELSE input[field] # UndefS

\* mutant: address is missing from the list of significant fields
hasSignificantChanges_noAddress(input) ==
    \E field \in significantFields \ {"address"} : supplied(input, field)

\* mutant: notes and phone are counted among the significant fields
hasSignificantChanges_withNotes(input) ==
    \E field \in significantFields \cup {"notes", "phone"} : supplied(input, field)

\* significantFields.some(field => input[field] !== undefined)
hasSignificantChanges(input) == \E field \in significantFields : supplied(input, field)

\* the three-way validation of district_id / village_id: "ok" or the error thrown
validateLocation(ds, vs, input) ==
    IF TruthyN(input.district_id) /\ TruthyN(input.village_id)
    THEN IF villageInDistrict(vs, input.village_id, input.district_id)
         THEN "ok"
         ELSE "Village not found or does not belong to the specified district"
    ELSE IF TruthyN(input.district_id)
    THEN IF districtExists(ds, input.district_id) THEN "ok" ELSE "District not found"
    ELSE IF TruthyN(input.village_id)
    THEN IF villageExists(vs, input.village_id) THEN "ok" ELSE "Village not found"
    ELSE "ok"

\* mutant: the reset clears the status and the verifier but keeps verified_at
resetVerification_keepsDate(row) ==
    [row EXCEPT !.verification_status = "PENDING", !.verified_by = NullN]

\* updateValues.verification_status = 'PENDING'; verified_by = null; verified_at = null
resetVerification(row) ==
    [row EXCEPT !.verification_status = "PENDING", !.verified_by = NullN, !.verified_at = NullN]

\* updateValues[column] = x?.toString() when x !== undefined; .set() skips the
\* columns whose value is undefined
setNumeric(old, x) == IF x = UndefN \/ optToString(x) = UndefS THEN old ELSE optToString(x)

\* the column assignments of updateValues, one per field that is !== undefined
updateValues(row, input, t) ==
    LET set(field) == IF supplied(input, field) THEN input[field] ELSE row[field]
        assigned ==
            [row EXCEPT
                !.updated_at = t,
                !.head_of_household = set("head_of_household"),
                !.housing_status = set("housing_status"),
                !.eligibility_category = set("eligibility_category"),
                !.district_id = set("district_id"),
                !.village_id = set("village_id"),
                !.latitude = setNumeric(row.latitude, input.latitude),
                !.longitude = setNumeric(row.longitude, input.longitude),
                !.address = set("address"),
                !.phone = set("phone"),
                !.family_members = set("family_members"),
                !.monthly_income = setNumeric(row.monthly_income, input.monthly_income),
                !.house_condition_score = set("house_condition_score"),
                !.notes = set("notes")]
    IN  IF hasSignificantChanges(input) THEN resetVerification(assigned) ELSE assigned

updateHousingRecord(ds, vs, recs, nid, input, updatedBy, t) ==
    IF input.id \notin DOMAIN recs
    THEN Failed(recs, nid, "Housing record not found")
    ELSE IF validateLocation(ds, vs, input) # "ok"
    THEN Failed(recs, nid, validateLocation(ds, vs, input))
    ELSE [ recs |-> [recs EXCEPT ![input.id] = updateValues(recs[input.id], input, t)],
           nextId |-> nid,
           outcome |-> "ok" ]

----------------------------------------------------------------------------
(* verifyHousingRecord *)

\* mutant: every verify call marks the record VERIFIED
verifyValues_alwaysVerified(row, input, verifiedBy, t) ==
    [row EXCEPT
        !.verification_status = "VERIFIED",
        !.verified_by = verifiedBy,
        !.verified_at = t,
        !.notes = IF TruthyS(input.notes) THEN input.notes ELSE row.notes,
        !.updated_at = t]

\* mutant: verified_at is the date the record was created
verifyValues_atCreation(row, input, verifiedBy, t) ==
    [row EXCEPT
        !.verification_status = input.verification_status,
        !.verified_by = verifiedBy,
        !.verified_at = row.created_at,
        !.notes = IF TruthyS(input.notes) THEN input.notes ELSE row.notes,
        !.updated_at = t]

\* a variant in which the verifier takes over the authorship of the record
verifyValues_takesAuthorship(row, input, verifiedBy, t) ==
    [row EXCEPT
        !.verification_status = input.verification_status,
        !.verified_by = verifiedBy,
        !.verified_at = t,
        !.notes = IF TruthyS(input.notes) THEN input.notes ELSE row.notes,
        !.created_by = verifiedBy,
        !.updated_at = t]

\* .set({...}) of the verification update
verifyValues(row, input, verifiedBy, t) ==
    [row EXCEPT
        !.verification_status = input.verification_status,
        !.verified_by = verifiedBy,
        !.verified_at = t,
        !.notes = IF TruthyS(input.notes) THEN input.notes ELSE row.notes,
        !.updated_at = t]

verifyHousingRecord(recs, nid, input, verifiedBy, t) ==
    IF input.id \notin DOMAIN recs
    THEN Failed(recs, nid, "Housing record not found")
    ELSE [ recs |-> [recs EXCEPT ![input.id] = verifyValues(recs[input.id], input, verifiedBy, t)],
           nextId |-> nid,
           outcome |-> "ok" ]

----------------------------------------------------------------------------
(* deleteHousingRecord *)

deleteHousingRecord(recs, nid, id, deletedBy) ==
    IF id \notin DOMAIN recs
    THEN Failed(recs, nid, "Housing record not found")
    ELSE [ recs |-> [i \in DOMAIN recs \ {id} |-> recs[i]],
           nextId |-> nid,
           outcome |-> "ok" ]

----------------------------------------------------------------------------
(* updateHousingCoordinates *)

\* a variant that treats the new coordinates as a significant change
updateHousingCoordinates_resetsVerification(recs, nid, housingRecordId, latitude, longitude, updatedBy, t) ==
    IF housingRecordId \notin DOMAIN recs
    THEN Failed(recs, nid, "Housing record with ID ${housingRecordId} not found")
    ELSE [ recs |-> [recs EXCEPT
                        ![housingRecordId].latitude = ToString(latitude),
                        ![housingRecordId].longitude = ToString(longitude),
                        ![housingRecordId].verification_status = "PENDING",
                        ![housingRecordId].verified_by = NullN,
                        ![housingRecordId].verified_at = NullN,
                        ![housingRecordId].updated_at = t],
           nextId |-> nid,
           outcome |-> "ok" ]

updateHousingCoordinates(recs, nid, housingRecordId, latitude, longitude, updatedBy, t) ==
    IF housingRecordId \notin DOMAIN recs
    THEN Failed(recs, nid, "Housing record with ID ${housingRecordId} not found")
    ELSE [ recs |-> [recs EXCEPT
                        ![housingRecordId].latitude = ToString(latitude),
                        ![housingRecordId].longitude = ToString(longitude),
                        ![housingRecordId].updated_at = t],
           nextId |-> nid,
           outcome |-> "ok" ]

----------------------------------------------------------------------------
(* Inputs accepted by the input schemas, drawn from small sets *)

Niks == {"3271010101010001", "3271010101010002"}

\* ids a caller may name: 0 (falsy in JavaScript), the seeded ids, and one that is absent
IdInputs == 0..3

\* createHousingRecordInputSchema
CreateInputs ==
    [ head_of_household : {"Ani"},
      nik : Niks,
      housing_status : {"RTLH"},
      eligibility_category : {"POOR"},
      district_id : IdInputs \ {0},
      village_id : IdInputs \ {0},
      latitude : {-5},
      longitude : {105},
      address : {"Jl. A"},
      phone : {UndefS},
      family_members : {4},
      monthly_income : {1500000},
      house_condition_score : {UndefN},
      notes : {UndefS} ]

\* updateHousingRecordInputSchema: every field but id is optional
updateFields ==
    {"head_of_household", "housing_status", "eligibility_category", "district_id",
     "village_id", "latitude", "longitude", "address", "phone", "family_members",
     "monthly_income", "house_condition_score", "notes"}

updateFieldValues(field) ==
    CASE field = "head_of_household" -> {"Budi"}
      [] field = "housing_status" -> housingStatusEnum
      [] field = "eligibility_category" -> {"MODERATE"}
      [] field = "district_id" -> IdInputs
      [] field = "village_id" -> IdInputs
      [] field = "latitude" -> {NullN, -6}
      [] field = "longitude" -> {NullN, 104}
      [] field = "monthly_income" -> {NullN, 2000000}
      [] field = "address" -> {"Jl. B"}
      [] field = "phone" -> {NullS, "0812"}
      [] field = "family_members" -> {5}
      [] field = "house_condition_score" -> {NullN, 50}
      [] field = "notes" -> {NullS, "edited"}

emptyUpdate(id) ==
    [ id |-> id,
      head_of_household |-> UndefS,
      housing_status |-> UndefS,
      eligibility_category |-> UndefS,
      district_id |-> UndefN,
      village_id |-> UndefN,
      latitude |-> UndefN,
      longitude |-> UndefN,
      monthly_income |-> UndefN,
      address |-> UndefS,
      phone |-> UndefS,
      family_members |-> UndefN,
      house_condition_score |-> UndefN,
      notes |-> UndefS ]

\* the inputs that supply at most k of the optional fields
RECURSIVE UpdateInputsUpTo(_, _)
UpdateInputsUpTo(id, k) ==
    IF k = 0
    THEN {emptyUpdate(id)}
    ELSE LET smaller == UpdateInputsUpTo(id, k - 1)
         IN  smaller \cup
             UNION { UNION { {[input EXCEPT ![field] = v] : v \in updateFieldValues(field)}
                             : field \in {f \in updateFields : ~supplied(input, f)} }
                     : input \in smaller }

\* the inputs that supply both district_id and village_id
LocationUpdates(id) ==
    {[emptyUpdate(id) EXCEPT !.district_id = d, !.village_id = v] : d \in IdInputs, v \in IdInputs}

UpdateInputs(id) == UpdateInputsUpTo(id, MaxSupplied) \cup LocationUpdates(id)

\* verifyHousingRecordInputSchema
VerifyInputs(id) ==
    [ id : {id}, verification_status : verificationStatusEnum, notes : {UndefS, "checked"} ]

\* gis.updateCoordinates: { housingRecordId, latitude, longitude }
CoordinateInputs(id) == [ id : {id}, latitude : {-6}, longitude : {104} ]

----------------------------------------------------------------------------
(* The system: sequential handler calls *)

\* the createHousingRecord calls that run concurrently
Calls == 1..MaxCalls

NoCall == [ op |-> "none", input |-> NoRow, by |-> NullN, outcome |-> "none", before |-> << >> ]

Init ==
    /\ districts = {1, 2}
    /\ villages = (1 :> 1 @@ 2 :> 2)
    /\ housing_records = << >>
    /\ nextId = 1
    /\ documents = << >>
    /\ nextDocumentId = 1
    /\ backlogs = << >>
    /\ nextBacklogId = 1
    /\ auditLogs = << >>
    /\ now = 0
    /\ ops = 0
    /\ last = NoCall
    /\ pc = [p \in Calls |-> "idle"]
    /\ req = [p \in Calls |-> NoCall]

\* the tables no housing-record handler writes
otherTables == <<documents, nextDocumentId, backlogs, nextBacklogId>>

\* ids a caller may name: every stored id and one that is not stored
KnownIds == DOMAIN housing_records \cup {nextId}

\* the effect of one handler call on the store, with its record in last
Call(op, input, by, r) ==
    /\ ops < MaxOps
    /\ housing_records' = r.recs
    /\ nextId' = r.nextId
    /\ ops' = ops + 1
    /\ last' = [ op |-> op, input |-> input, by |-> by, outcome |-> r.outcome,
                 before |-> housing_records ]
    /\ UNCHANGED <<districts, villages, otherTables, auditLogs, now, pc, req>>

CreateHousingRecord ==
    \E input \in CreateInputs, createdBy \in Users :
        Call("create", input, createdBy,
             createHousingRecord(districts, villages, housing_records, nextId,
                                 input, createdBy, now))

UpdateHousingRecord ==
    \E id \in KnownIds, updatedBy \in Editors :
        \E input \in UpdateInputs(id) :
            Call("update", input, updatedBy,
                 updateHousingRecord(districts, villages, housing_records, nextId,
                                     input, updatedBy, now))

VerifyHousingRecord ==
    \E id \in KnownIds, verifiedBy \in Users :
        \E input \in VerifyInputs(id) :
            Call("verify", input, verifiedBy,
                 verifyHousingRecord(housing_records, nextId, input, verifiedBy, now))

DeleteHousingRecord ==
    \E id \in KnownIds, deletedBy \in Editors :
        Call("delete", [id |-> id], deletedBy,
             deleteHousingRecord(housing_records, nextId, id, deletedBy))

UpdateHousingCoordinates ==
    \E id \in KnownIds, updatedBy \in Editors :
        \E input \in CoordinateInputs(id) :
            Call("updateCoordinates", input, updatedBy,
                 updateHousingCoordinates(housing_records, nextId, input.id, input.latitude,
                                          input.longitude, updatedBy, now))

\* time passes between calls
Tick ==
    /\ now < MaxTime
    /\ ops < MaxOps
    /\ now' = now + 1
    /\ UNCHANGED <<districts, villages, housing_records, nextId, otherTables, auditLogs,
                   ops, last, pc, req>>

Next ==
    \/ CreateHousingRecord
    \/ UpdateHousingRecord
    \/ VerifyHousingRecord
    \/ DeleteHousingRecord
    \/ UpdateHousingCoordinates
    \/ Tick

Spec == Init /\ [][Next]_vars

----------------------------------------------------------------------------
(* Concurrent createHousingRecord calls: every await of the handler is a step *)

storeUnchanged == UNCHANGED <<districts, villages, otherTables, auditLogs, now, ops, last>>

\* one await of call p ends: it moves to position next, or throws msg
Advance(p, ok, next, msg) ==
    /\ pc' = [pc EXCEPT ![p] = IF ok THEN next ELSE "done"]
    /\ req' = [req EXCEPT ![p].outcome = IF ok THEN @ ELSE msg]
    /\ UNCHANGED <<housing_records, nextId>>
    /\ storeUnchanged

BeginCreate(p) ==
    /\ pc[p] = "idle"
    /\ \E input \in CreateInputs, createdBy \in Users :
           req' = [req EXCEPT ![p] =
                      [ op |-> "create", input |-> input, by |-> createdBy,
                        outcome |-> "pending", before |-> << >> ]]
    /\ pc' = [pc EXCEPT ![p] = "district"]
    /\ UNCHANGED <<housing_records, nextId>>
    /\ storeUnchanged

CheckDistrict(p) ==
    /\ pc[p] = "district"
    /\ Advance(p, districtExists(districts, req[p].input.district_id),
               "village", "District not found")

CheckVillage(p) ==
    /\ pc[p] = "village"
    /\ Advance(p, villageInDistrict(villages, req[p].input.village_id, req[p].input.district_id),
               "nik", "Village not found or does not belong to the specified district")

CheckNik(p) ==
    /\ pc[p] = "nik"
    /\ Advance(p, existingNik(housing_records, req[p].input.nik) = {},
               "insert", "NIK already exists")

InsertRecord(p) ==
    /\ pc[p] = "insert"
    /\ LET r == insertHousingRecord(housing_records, nextId,
                                    createValues(req[p].input, req[p].by, now))
       IN  /\ housing_records' = r.recs
           /\ nextId' = r.nextId
           /\ req' = [req EXCEPT ![p].outcome = r.outcome]
    /\ pc' = [pc EXCEPT ![p] = "done"]
    /\ storeUnchanged

NextConc ==
    \E p \in Calls :
        \/ BeginCreate(p)
        \/ CheckDistrict(p)
        \/ CheckVillage(p)
        \/ CheckNik(p)
        \/ InsertRecord(p)

SpecConc == Init /\ [][NextConc]_vars

----------------------------------------------------------------------------
(* Housing-record properties *)

Ids == DOMAIN housing_records

Called(op) == last.op = op
Succeeded(op) == last.op = op /\ last.outcome = "ok"

\* the row the last update or verify call found, and the row it left
rowBefore == last.before[last.input.id]
rowAfter == housing_records[last.input.id]

\* the input of the last update names one of the five significant fields
SuppliesSignificant(input) ==
    \/ input.head_of_household # UndefS
    \/ input.housing_status # UndefS
    \/ input.eligibility_category # UndefS
    \/ input.address # UndefS
    \/ input.family_members # UndefN

NikUnique ==
    \A a \in Ids, b \in Ids : a # b => housing_records[a].nik # housing_records[b].nik

\* the input of a create call names an existing district and one of its villages
ValidLocation(input) ==
    /\ input.district_id \in districts
    /\ input.village_id \in DOMAIN villages
    /\ villages[input.village_id] = input.district_id

NikUsed(recs, nik) == \E id \in DOMAIN recs : recs[id].nik = nik

C2_SignificantUpdateResets ==
    (Succeeded("update") /\ SuppliesSignificant(last.input))
    => /\ rowAfter.verification_status = "PENDING"
       /\ rowAfter.verified_by = NullN
       /\ rowAfter.verified_at = NullN

C2_Witness ==
    /\ Succeeded("update")
    /\ last.input.housing_status # UndefS
    /\ last.input.housing_status = rowBefore.housing_status
    /\ rowBefore.verification_status = "VERIFIED"
    /\ rowAfter.verification_status = "PENDING"

\* C3: every stored housing record's village_id is a village whose district_id
\* equals the record's district_id.
C3_VillageBelongsToDistrict ==
    \A id \in Ids :
        /\ housing_records[id].village_id \in DOMAIN villages
        /\ villages[housing_records[id].village_id] = housing_records[id].district_id

\* C4: for every housing record verified_by and verified_at are both null or both
\* set, and a record that is not PENDING has both set.
C4_VerifierAndDateTogether ==
    \A id \in Ids :
        LET row == housing_records[id]
        IN  /\ (row.verified_by = NullN) <=> (row.verified_at = NullN)
            /\ row.verification_status # "PENDING"
                   => (row.verified_by # NullN /\ row.verified_at # NullN)

C4_Witness ==
    /\ Succeeded("update")
    /\ rowBefore.verification_status = "REJECTED"
    /\ rowBefore.verified_by # NullN
    /\ rowBefore.verified_at # NullN
    /\ rowAfter.verified_by = NullN
    /\ rowAfter.verified_at = NullN

\* the rows the last call found and left in the table
Kept == DOMAIN last.before \cap Ids

\* C5 as stated: no single operation takes a record from VERIFIED to REJECTED or
\* from REJECTED to VERIFIED.
C5_NoDirectFlip ==
    \A id \in Kept :
        /\ ~(last.before[id].verification_status = "VERIFIED"
             /\ housing_records[id].verification_status = "REJECTED")
        /\ ~(last.before[id].verification_status = "REJECTED"
             /\ housing_records[id].verification_status = "VERIFIED")

\* C5 amended: a record's verification_status changes only through a
\* verifyHousingRecord on that record, which sets the requested status from any
\* state (VERIFIED to REJECTED and back included), or through an
\* updateHousingRecord on that record that names a significant field, which sets
\* PENDING.
C5_StatusChangesOnlyByVerifyOrReset ==
    \A id \in Kept :
        housing_records[id].verification_status # last.before[id].verification_status
        => /\ last.outcome = "ok"
           /\ last.op \in {"verify", "update"}
           /\ last.input.id = id
           /\ \/ /\ last.op = "verify"
                 /\ housing_records[id].verification_status = last.input.verification_status
              \/ /\ last.op = "update"
                 /\ SuppliesSignificant(last.input)
                 /\ housing_records[id].verification_status = "PENDING"

C5_Witness ==
    /\ Succeeded("verify")
    /\ rowBefore.verification_status = "VERIFIED"
    /\ rowAfter.verification_status = "REJECTED"

\* C6: after a successful verifyHousingRecord the record's status is the requested
\* one, that status is VERIFIED or REJECTED, verified_by is the verifier and
\* verified_at is set.
C6_VerifyLeavesVerifiedOrRejected ==
    Succeeded("verify")
    => /\ rowAfter.verification_status = last.input.verification_status
       /\ rowAfter.verification_status \in {"VERIFIED", "REJECTED"}
       /\ rowAfter.verified_by = last.by
       /\ rowAfter.verified_at # NullN

\* C7: a successful updateHousingRecord whose input names no significant field
\* leaves verification_status, verified_by and verified_at as they were.
C7_OtherUpdatesKeepVerification ==
    (Succeeded("update") /\ ~SuppliesSignificant(last.input))
    => /\ rowAfter.verification_status = rowBefore.verification_status
       /\ rowAfter.verified_by = rowBefore.verified_by
       /\ rowAfter.verified_at = rowBefore.verified_at

C7_Witness ==
    /\ Succeeded("update")
    /\ ~SuppliesSignificant(last.input)
    /\ last.input.phone # UndefS
    /\ rowBefore.verification_status = "VERIFIED"
    /\ rowAfter.phone # rowBefore.phone

auditActionOf(op) ==
    CASE op = "create" -> "CREATE"
      [] op = "update" -> "UPDATE"
      [] op = "verify" -> "VERIFY"
      [] op = "delete" -> "DELETE"

\* C8: each successful create, update, verify and delete of a housing record
\* appends exactly one audit-log entry naming the action, the resource type
\* "housing_record" and the record's id; a failed call appends none.
C8_OneAuditEntryPerMutation ==
    [][ ops' = ops + 1
        => IF last'.outcome = "ok"
           THEN /\ Len(auditLogs') = Len(auditLogs) + 1
                /\ SubSeq(auditLogs', 1, Len(auditLogs)) = auditLogs
                /\ auditLogs'[Len(auditLogs')].action = auditActionOf(last'.op)
                /\ auditLogs'[Len(auditLogs')].resource_type = "housing_record"
                /\ auditLogs'[Len(auditLogs')].resource_id =
                       (IF last'.op = "create" THEN nextId ELSE last'.input.id)
           ELSE auditLogs' = auditLogs
      ]_vars

\* C9: createHousingRecord naming an existing district and an existing village of
\* another district fails with the village-mismatch error, naming a district that
\* does not exist fails with 'District not found'; neither inserts a record.
C9_CreateRejectsBadLocation ==
    Called("create")
    => LET d == last.input.district_id
           v == last.input.village_id
       IN  /\ d \notin districts
               => /\ last.outcome = "District not found"
                  /\ housing_records = last.before
           /\ (d \in districts /\ v \in DOMAIN villages /\ villages[v] # d)
               => /\ last.outcome =
                        "Village not found or does not belong to the specified district"
                  /\ housing_records = last.before

C9_Witness ==
    /\ Called("create")
    /\ last.input.district_id \in districts
    /\ last.input.village_id \in DOMAIN villages
    /\ villages[last.input.village_id] # last.input.district_id
    /\ last.outcome = "Village not found or does not belong to the specified district"
    /\ housing_records = last.before

\* C10: of the concurrent createHousingRecord calls that carry the same nik at
\* most one succeeds, under every interleaving of their checks and inserts, and
\* at most one record with that nik is stored.
C10_ConcurrentCreatesOneWinner ==
    /\ \A p \in Calls, q \in Calls :
           (p # q /\ pc[p] = "done" /\ pc[q] = "done"
                  /\ req[p].input.nik = req[q].input.nik)
           => ~(req[p].outcome = "ok" /\ req[q].outcome = "ok")
    /\ \A nik \in Niks : Cardinality({id \in Ids : housing_records[id].nik = nik}) <= 1

C10_Witness ==
    \E p \in Calls, q \in Calls :
        /\ p # q
        /\ pc[p] = "done"
        /\ pc[q] = "done"
        /\ req[p].input.nik = req[q].input.nik
        /\ req[p].outcome = "ok"
        /\ req[q].outcome = UniqueViolation
        /\ Cardinality(Ids) = 1

----------------------------------------------------------------------------
(* Backlog tracker: createBacklog, updateBacklog, getBacklogsByDateRange *)

backlogTypeEnum == {"NO_HOUSE", "UNINHABITABLE_HOUSE"}

\* Message of the storage layer when backlogs_unique_entry is violated
BacklogUniqueViolation == "duplicate key value violates unique constraint backlogs_unique_entry"

BacklogAlreadyExists ==
    "A backlog entry already exists for this district, village, type, year, and month combination"

\* the five columns of backlogs_unique_entry agree
sameEntry(a, b) ==
    /\ a.district_id = b.district_id
    /\ a.village_id = b.village_id
    /\ a.backlog_type = b.backlog_type
    /\ a.year = b.year
    /\ a.month = b.month

\* mutant: the pre-check compares every column but backlog_type
existingBacklog_anyType(bs, input) ==
    {id \in DOMAIN bs :
        /\ bs[id].district_id = input.district_id
        /\ bs[id].village_id = input.village_id
        /\ bs[id].year = input.year
        /\ bs[id].month = input.month}

\* select from backlogs where district_id, village_id, backlog_type, year, month match
existingBacklog(bs, input) == {id \in DOMAIN bs : sameEntry(bs[id], input)}

\* unique('backlogs_unique_entry'): may this row be inserted
uniqueEntry(bs, row) == \A id \in DOMAIN bs : ~sameEntry(bs[id], row)

\* .values({...}) of the insert, with the column defaults of backlogsTable
backlogValues(input, createdBy, t) ==
    [ district_id |-> input.district_id,
      village_id |-> input.village_id,
      backlog_type |-> input.backlog_type,
      family_count |-> input.family_count,
      year |-> input.year,
      month |-> input.month,
      created_by |-> createdBy,
      created_at |-> t,
      updated_at |-> t,
      id |-> NullN ]

\* db.insert(backlogsTable): the serial id is drawn first, then the unique
\* constraint decides whether the row is stored
insertBacklog(bs, nid, row) ==
    IF uniqueEntry(bs, row)
    THEN [ recs |-> [id \in DOMAIN bs \cup {nid} |->
                        IF id = nid THEN [row EXCEPT !.id = nid] ELSE bs[id]],
           nextId |-> nid + 1,
           outcome |-> "ok" ]
    ELSE [ recs |-> bs, nextId |-> nid + 1, outcome |-> BacklogUniqueViolation ]

createBacklog(ds, vs, bs, nid, input, createdBy, t) ==
    IF ~districtExists(ds, input.district_id)
    THEN Failed(bs, nid, "District with ID ${input.district_id} does not exist")
    ELSE IF ~villageInDistrict(vs, input.village_id, input.district_id)
    THEN Failed(bs, nid,
                "Village with ID ${input.village_id} does not exist in district ${input.district_id}")
    ELSE IF existingBacklog(bs, input) # {}
    THEN Failed(bs, nid, BacklogAlreadyExists)
    ELSE insertBacklog(bs, nid, backlogValues(input, createdBy, t))

\* .set({ family_count, updated_at: new Date() }) on the row with this id
updateBacklog(bs, nid, id, familyCount, updatedBy, t) ==
    IF id \notin DOMAIN bs
    THEN Failed(bs, nid, "Backlog with ID ${id} does not exist")
    ELSE [ recs |-> [bs EXCEPT ![id].family_count = familyCount, ![id].updated_at = t],
           nextId |-> nid,
           outcome |-> "ok" ]

\* the rows selected by the where clause of the query: one month range when the
\* years are equal, otherwise the start year from startMonth on, the end year up
\* to endMonth, and the years strictly between
getBacklogsByDateRange(bs, startYear, startMonth, endYear, endMonth) ==
    IF startYear = endYear
    THEN {bs[id] : id \in {i \in DOMAIN bs :
              /\ bs[i].year = startYear
              /\ bs[i].month >= startMonth
              /\ bs[i].month <= endMonth}}
    ELSE {bs[id] : id \in {i \in DOMAIN bs :
              \/ bs[i].year = startYear /\ bs[i].month >= startMonth
              \/ bs[i].year = endYear /\ bs[i].month <= endMonth
              \/ bs[i].year >= startYear + 1 /\ bs[i].year <= endYear - 1}}

----------------------------------------------------------------------------
(* The backlog tracker as a system: sequential calls of its routes *)

Years == 2023..2025

\* createBacklogInputSchema: a valid location, a village of another district and
\* a district that does not exist
CreateBacklogInputs ==
    [ district_id : {1, 3},
      village_id : {1, 2},
      backlog_type : backlogTypeEnum,
      family_count : {7},
      year : Years,
      month : {2, 11} ]

\* backlogs.update: z.object({ id: z.number(), familyCount: z.number() })
FamilyCountInputs == {-1, 0, 12}

\* backlogs.getByDateRange: four unconstrained numbers
DateRangeInputs ==
    [ startYear : Years, startMonth : {1, 10}, endYear : Years, endMonth : {5, 12} ]

KnownBacklogIds == DOMAIN backlogs \cup {nextBacklogId}

\* the effect of one backlog route on the store, with its record in last
CallBacklog(op, input, by, r, result) ==
    /\ ops < MaxOps
    /\ backlogs' = r.recs
    /\ nextBacklogId' = r.nextId
    /\ ops' = ops + 1
    /\ last' = [ op |-> op, input |-> input, by |-> by, outcome |-> r.outcome,
                 before |-> backlogs, result |-> result ]
    /\ UNCHANGED <<districts, villages, housing_records, nextId, documents, nextDocumentId,
                   auditLogs, now, pc, req>>

CreateBacklog ==
    \E input \in CreateBacklogInputs, createdBy \in Editors :
        CallBacklog("createBacklog", input, createdBy,
                    createBacklog(districts, villages, backlogs, nextBacklogId,
                                  input, createdBy, now),
                    {})

UpdateBacklog ==
    \E id \in KnownBacklogIds, familyCount \in FamilyCountInputs, updatedBy \in Editors :
        CallBacklog("updateBacklog", [id |-> id, familyCount |-> familyCount], updatedBy,
                    updateBacklog(backlogs, nextBacklogId, id, familyCount, updatedBy, now),
                    {})

GetBacklogsByDateRange ==
    \E input \in DateRangeInputs, by \in Editors :
        CallBacklog("getBacklogsByDateRange", input, by,
                    [recs |-> backlogs, nextId |-> nextBacklogId, outcome |-> "ok"],
                    getBacklogsByDateRange(backlogs, input.startYear, input.startMonth,
                                           input.endYear, input.endMonth))

NextBacklog ==
    \/ CreateBacklog
    \/ UpdateBacklog
    \/ GetBacklogsByDateRange
    \/ Tick

SpecBacklog == Init /\ [][NextBacklog]_vars

----------------------------------------------------------------------------
(* Backlog properties *)

BacklogIds == DOMAIN backlogs

\* some row of the table bs carries the five-column tuple of input
EntryUsed(bs, input) == \E id \in DOMAIN bs : sameEntry(bs[id], input)

\* C11: no two stored backlog entries share (district_id, village_id,
\* backlog_type, year, month); a createBacklog (with a valid district and village)
\* whose tuple is already stored fails with the 'already exists' conflict and
\* inserts nothing, and one whose tuple is not stored succeeds and inserts its
\* row, also when only the backlog_type differs from a stored entry.
C11_BacklogEntryUnique ==
    /\ \A a \in BacklogIds, b \in BacklogIds : a # b => ~sameEntry(backlogs[a], backlogs[b])
    /\ (Called("createBacklog") /\ ValidLocation(last.input))
       => IF EntryUsed(last.before, last.input)
          THEN last.outcome = BacklogAlreadyExists /\ backlogs = last.before
          ELSE /\ last.outcome = "ok"
               /\ BacklogIds = DOMAIN last.before \cup {nextBacklogId - 1}
               /\ sameEntry(backlogs[nextBacklogId - 1], last.input)
               /\ \A id \in DOMAIN last.before : backlogs[id] = last.before[id]

\* a duplicate is rejected while the same district, village, year and month is
\* stored under both backlog types
C11_Witness ==
    /\ Called("createBacklog")
    /\ last.outcome = BacklogAlreadyExists
    /\ backlogs = last.before
    /\ \E a \in BacklogIds, b \in BacklogIds :
           /\ backlogs[a].backlog_type # backlogs[b].backlog_type
           /\ sameEntry(backlogs[a], [backlogs[b] EXCEPT !.backlog_type = backlogs[a].backlog_type])
           /\ sameEntry(backlogs[a], last.input)

\* (startYear, startMonth) <= (row.year, row.month) <= (endYear, endMonth) in the
\* lexicographic order on (year, month)
inDateRange(row, input) ==
    /\ \/ input.startYear < row.year
       \/ input.startYear = row.year /\ input.startMonth <= row.month
    /\ \/ row.year < input.endYear
       \/ row.year = input.endYear /\ row.month <= input.endMonth

\* C12: getBacklogsByDateRange returns exactly the stored entries whose
\* (year, month) lies between (startYear, startMonth) and (endYear, endMonth) in
\* the lexicographic order, so nothing when the end precedes the start.
C12_DateRangeIsLexicographic ==
    Called("getBacklogsByDateRange")
    => last.result = {backlogs[id] : id \in {i \in BacklogIds : inDateRange(backlogs[i], last.input)}}

----------------------------------------------------------------------------
(* Partial updates of a housing record *)

\* the columns of type numeric, which hold decimal text
numericColumns == {"latitude", "longitude", "monthly_income"}

\* null as an input value of the field, and as the stored value of its column
nullInput(field) == IF field \in numberFields THEN NullN ELSE NullS
nullStored(field) == IF field = "house_condition_score" THEN NullN ELSE NullS

\* C13: a successful updateHousingRecord leaves every field absent from its input
\* as it was, stores every supplied value that is not null, and leaves every
\* nullable field supplied as null with a stored null.
C13_UpdateAppliesExactlySuppliedFields ==
    Succeeded("update")
    => \A field \in updateFields :
           IF ~supplied(last.input, field)
           THEN rowAfter[field] = rowBefore[field]
           ELSE IF last.input[field] = nullInput(field)
           THEN rowAfter[field] = nullStored(field)
           ELSE IF field \in numericColumns
           THEN rowAfter[field] = ToString(last.input[field])
           ELSE rowAfter[field] = last.input[field]

----------------------------------------------------------------------------
(* Audit log and the report handlers that write to it *)

auditActionEnum == {"CREATE", "UPDATE", "DELETE", "VERIFY", "LOGIN", "EXPORT"}

\* The error of the storage layer when an insert into audit_logs cannot be made
AuditStorageError == "insert into audit_logs failed"

\* mutant: the insert overwrites the newest row of the table
insertAuditLog_overwrite(logs, row, t) ==
    IF logs = << >>
    THEN <<[row EXCEPT !.id = 1, !.created_at = t]>>
    ELSE [logs EXCEPT ![Len(logs)] = [row EXCEPT !.id = Len(logs), !.created_at = t]]

\* db.insert(auditLogsTable).values(row): a new row with the next serial id and
\* created_at defaultNow()
insertAuditLog(logs, row, t) ==
    Append(logs, [row EXCEPT !.id = Len(logs) + 1, !.created_at = t])

\* the outcome of a handler that awaits the insert inside its try block: the
\* error of a failed insert is logged to the console and thrown again
auditedOutcome(logs, row, t, insertOk) ==
    IF insertOk
    THEN [ logs |-> insertAuditLog(logs, row, t), outcome |-> "ok" ]
    ELSE [ logs |-> logs, outcome |-> AuditStorageError ]

logAuditAction(logs, userId, action, resourceType, resourceId, details, ipAddress, t, insertOk) ==
    auditedOutcome(logs,
        [ user_id |-> userId,
          action |-> action,
          resource_type |-> resourceType,
          resource_id |-> IF TruthyN(resourceId) THEN resourceId ELSE NullN,
          details |-> IF TruthyS(details) THEN details ELSE NullS,
          ip_address |-> IF TruthyS(ipAddress) THEN ipAddress ELSE NullS,
          id |-> NullN,
          created_at |-> NullN ],
        t, insertOk)

\* the rows of the report: housing records joined with their district and
\* village, filtered by district_id when it is truthy
reportData(ds, vs, recs, input) ==
    {id \in DOMAIN recs :
        /\ recs[id].district_id \in ds
        /\ recs[id].village_id \in DOMAIN vs
        /\ TruthyN(input.district_id) => recs[id].district_id = input.district_id}

generateReport(ds, vs, recs, logs, input, userId, t, insertOk) ==
    auditedOutcome(logs,
        [ user_id |-> userId,
          action |-> "EXPORT",
          resource_type |-> "housing_report",
          resource_id |-> NullN,
          details |-> "Generated " \o input.format \o " report with "
                          \o ToString(Cardinality(reportData(ds, vs, recs, input)))
                          \o " records",
          ip_address |-> NullS,
          id |-> NullN,
          created_at |-> NullN ],
        t, insertOk)

scheduleAutomatedReports(logs, userId, t, insertOk) ==
    auditedOutcome(logs,
        [ user_id |-> userId,
          action |-> "CREATE",
          resource_type |-> "automated_reports",
          resource_id |-> NullN,
          details |-> "Scheduled automated report generation",
          ip_address |-> NullS,
          id |-> NullN,
          created_at |-> NullN ],
        t, insertOk)

\* exportReportInputSchema, with village_id, housing_status and the dates left out
ExportInputs == [ format : {"PDF", "CSV"}, district_id : {UndefN, 1} ]

\* arguments of logAuditAction: action, resource id (absent, 0 or an id), details
LogInputs ==
    [ action : {"LOGIN", "UPDATE"},
      resource_type : {"housing_record"},
      resource_id : {UndefN, 0, 7},
      details : {UndefS},
      ip_address : {UndefS} ]

\* the effect of one audited call on the log, with its record in last; insertOk
\* tells whether the storage layer accepted the insert into audit_logs
CallAudit(op, input, by, r, insertOk) ==
    /\ ops < MaxOps
    /\ auditLogs' = r.logs
    /\ ops' = ops + 1
    /\ last' = [ op |-> op, input |-> input, by |-> by, outcome |-> r.outcome,
                 before |-> auditLogs, insertOk |-> insertOk ]
    /\ UNCHANGED <<districts, villages, housing_records, nextId, otherTables, now, pc, req>>

GenerateReport ==
    \E input \in ExportInputs, userId \in Editors, insertOk \in BOOLEAN :
        CallAudit("generateReport", input, userId,
                  generateReport(districts, villages, housing_records, auditLogs,
                                 input, userId, now, insertOk),
                  insertOk)

ScheduleAutomatedReports ==
    \E userId \in Users, insertOk \in BOOLEAN :
        CallAudit("scheduleAutomatedReports", NoRow, userId,
                  scheduleAutomatedReports(auditLogs, userId, now, insertOk),
                  insertOk)

LogAuditAction ==
    \E input \in LogInputs, userId \in Editors, insertOk \in BOOLEAN :
        CallAudit("logAuditAction", input, userId,
                  logAuditAction(auditLogs, userId, input.action, input.resource_type,
                                 input.resource_id, input.details, input.ip_address,
                                 now, insertOk),
                  insertOk)

NextAudit ==
    \/ GenerateReport
    \/ ScheduleAutomatedReports
    \/ LogAuditAction
    \/ Tick

SpecAudit == Init /\ [][NextAudit]_vars

----------------------------------------------------------------------------
(* Audit-log properties *)

\* C14: the audit log is append-only: every step leaves each entry the log held
\* in place and unchanged, and only adds entries after them.
C14_AuditLogAppendOnly ==
    [][ /\ Len(auditLogs') >= Len(auditLogs)
        /\ SubSeq(auditLogs', 1, Len(auditLogs)) = auditLogs ]_vars

\* three entries written by three calls, the first two still as they were written
C14_Witness ==
    /\ Len(auditLogs) = 3
    /\ Len(last.before) = 2
    /\ SubSeq(auditLogs, 1, 2) = last.before
    /\ auditLogs[1].action # auditLogs[3].action

\* C15: when the insert into the audit log fails, generateReport and
\* scheduleAutomatedReports still return their successful result.
C15_AuditFailureDoesNotFailOperation ==
    (last.op \in {"generateReport", "scheduleAutomatedReports"} /\ ~last.insertOk)
    => last.outcome = "ok"

----------------------------------------------------------------------------
(* Outcome of the call that loses a race on the unique constraint *)

\* C16: a concurrent createHousingRecord with a valid location that is rejected
\* because its nik is taken fails with the outcome of the pre-check, 'NIK
\* already exists', whether the pre-check or only the unique constraint of the
\* table caught the duplicate.
C16_RaceLoserGetsConflict ==
    \A p \in Calls :
        (pc[p] = "done" /\ req[p].outcome # "ok" /\ ValidLocation(req[p].input))
        => req[p].outcome = "NIK already exists"

----------------------------------------------------------------------------
(* Documents of housing records: createDocument, deleteDocument *)

documentTypeEnum ==
    {"LAND_CERTIFICATE", "ID_CARD", "FAMILY_CARD", "HOUSE_PHOTO_BEFORE", "HOUSE_PHOTO_AFTER"}

\* .values({...}) of the insert, with the column defaults of documentsTable
documentValues(input, uploadedBy, t) ==
    [ housing_record_id |-> input.housing_record_id,
      document_type |-> input.document_type,
      filename |-> input.filename,
      file_path |-> input.file_path,
      file_size |-> input.file_size,
      mime_type |-> input.mime_type,
      uploaded_by |-> uploadedBy,
      created_at |-> t,
      id |-> NullN ]

createDocument(recs, docs, nid, input, uploadedBy, t) ==
    IF input.housing_record_id \notin DOMAIN recs
    THEN Failed(docs, nid, "Housing record not found")
    ELSE [ recs |-> [id \in DOMAIN docs \cup {nid} |->
                        IF id = nid
                        THEN [documentValues(input, uploadedBy, t) EXCEPT !.id = nid]
                        ELSE docs[id]],
           nextId |-> nid + 1,
           outcome |-> "ok" ]

\* resolves to false when no document has this id, to true when it deleted one
deleteDocument(docs, nid, id, deletedBy) ==
    IF id \notin DOMAIN docs
    THEN [ recs |-> docs, nextId |-> nid, outcome |-> "false" ]
    ELSE [ recs |-> [i \in DOMAIN docs \ {id} |-> docs[i]], nextId |-> nid, outcome |-> "true" ]

\* createDocumentInputSchema
CreateDocumentInputs(id) ==
    [ housing_record_id : {id},
      document_type : {"ID_CARD", "HOUSE_PHOTO_BEFORE"},
      filename : {"house_before.jpg"},
      file_path : {"/uploads/house_before.jpg"},
      file_size : {1024000},
      mime_type : {"image/jpeg"} ]

KnownDocumentIds == DOMAIN documents \cup {nextDocumentId}

\* the effect of one document route on the store, with its record in last
CallDocument(op, input, by, r) ==
    /\ ops < MaxOps
    /\ documents' = r.recs
    /\ nextDocumentId' = r.nextId
    /\ ops' = ops + 1
    /\ last' = [ op |-> op, input |-> input, by |-> by, outcome |-> r.outcome,
                 before |-> documents ]
    /\ UNCHANGED <<districts, villages, housing_records, nextId, backlogs, nextBacklogId,
                   auditLogs, now, pc, req>>

CreateDocument ==
    \E id \in KnownIds, uploadedBy \in Editors :
        \E input \in CreateDocumentInputs(id) :
            CallDocument("createDocument", input, uploadedBy,
                         createDocument(housing_records, documents, nextDocumentId,
                                        input, uploadedBy, now))

DeleteDocument ==
    \E id \in KnownDocumentIds, deletedBy \in Editors :
        CallDocument("deleteDocument", [id |-> id], deletedBy,
                     deleteDocument(documents, nextDocumentId, id, deletedBy))

NextDocuments ==
    \/ CreateHousingRecord
    \/ DeleteHousingRecord
    \/ CreateDocument
    \/ DeleteDocument

SpecDocuments == Init /\ [][NextDocuments]_vars

\* C17: every stored document's housing_record_id is the id of a stored housing
\* record, and a createDocument that names no stored housing record fails with
\* 'Housing record not found' and inserts nothing.
C17_NoOrphanDocuments ==
    /\ \A d \in DOMAIN documents : documents[d].housing_record_id \in Ids
    /\ (Called("createDocument") /\ last.input.housing_record_id \notin Ids)
       => (last.outcome = "Housing record not found" /\ documents = last.before)

----------------------------------------------------------------------------
(* Backlog updates and timestamps *)

\* C18: every stored backlog entry has a family_count >= 0; updateBacklog on a
\* stored id replaces family_count, sets updated_at and changes nothing else, and
\* on an id that is not stored fails with 'does not exist' and changes nothing.
C18_FamilyCountNonNegative ==
    /\ \A id \in BacklogIds : backlogs[id].family_count >= 0
    /\ Called("updateBacklog")
       => IF last.input.id \in DOMAIN last.before
          THEN /\ last.outcome = "ok"
               /\ BacklogIds = DOMAIN last.before
               /\ \A id \in BacklogIds :
                      backlogs[id] =
                          IF id = last.input.id
                          THEN [last.before[id] EXCEPT
                                   !.family_count = last.input.familyCount,
                                   !.updated_at = backlogs[id].updated_at]
                          ELSE last.before[id]
          ELSE /\ last.outcome = "Backlog with ID ${id} does not exist"
               /\ backlogs = last.before

\* C19: the clock never going back, a successful verifyHousingRecord leaves
\* verified_at >= the updated_at the record had before the call, and no call
\* (update, verify and updateHousingCoordinates included) lowers a record's
\* updated_at.
C19_TimestampsFollowClock ==
    /\ Succeeded("verify") => rowAfter.verified_at >= rowBefore.updated_at
    /\ \A id \in Kept : housing_records[id].updated_at >= last.before[id].updated_at

\* a record updated after its creation is verified later still
C19_Witness ==
    /\ Succeeded("verify")
    /\ rowBefore.updated_at > rowBefore.created_at
    /\ rowAfter.verified_at >= rowBefore.updated_at
    /\ rowAfter.updated_at >= rowBefore.updated_at

----------------------------------------------------------------------------
(* Security report.  The clock counts days here. *)

MaxAuditEntries == 10
MaxDay == 8

\* select count() from audit_logs where created_at >= since and action in actions
countSince(logs, since, actions) ==
    Cardinality({i \in 1..Len(logs) : logs[i].created_at >= since /\ logs[i].action \in actions})

\* Math.floor(n * 0.1): the double nearest to 0.1 is above one tenth by less than
\* 1e-17, so for a row count n the product lies in [n/10, n/10 + 0.05) and its
\* floor is the integer quotient
floorTenth(n) == n \div 10

\* mutant: suspicious activities are counted over the week, like the other figures
getSecurityReport_weekOnly(logs, t) ==
    LET weekAgo == t - 7
    IN  [ suspicious_activities |-> floorTenth(countSince(logs, weekAgo, auditActionEnum)),
          failed_logins |-> countSince(logs, weekAgo, {"LOGIN"}),
          data_exports |-> countSince(logs, weekAgo, {"EXPORT"}),
          recent_changes |-> countSince(logs, weekAgo, auditActionEnum) ]

getSecurityReport(logs, t) ==
    LET weekAgo == t - 7
        yesterdayAgo == t - 1
    IN  [ suspicious_activities |-> floorTenth(countSince(logs, yesterdayAgo, auditActionEnum)),
          failed_logins |-> countSince(logs, weekAgo, {"LOGIN"}),
          data_exports |-> countSince(logs, weekAgo, {"EXPORT"}),
          recent_changes |-> countSince(logs, weekAgo, auditActionEnum) ]

\* the entries the report is taken over: logins and exports
ActivityInputs ==
    [ action : {"LOGIN", "EXPORT"},
      resource_type : {"user"},
      resource_id : {UndefN},
      details : {UndefS},
      ip_address : {UndefS} ]

\* days that pass between two calls
DaySteps == {4}

LogActivity ==
    /\ Len(auditLogs) < MaxAuditEntries
    /\ \E input \in ActivityInputs, userId \in Editors :
           /\ auditLogs' = logAuditAction(auditLogs, userId, input.action, input.resource_type,
                                          input.resource_id, input.details, input.ip_address,
                                          now, TRUE).logs
           /\ last' = [NoCall EXCEPT !.op = "logAuditAction", !.by = userId, !.outcome = "ok"]
    /\ UNCHANGED <<districts, villages, housing_records, nextId, otherTables, now, ops, pc, req>>

GetSecurityReport ==
    /\ last' = [ op |-> "getSecurityReport", input |-> NoRow, by |-> NullN, outcome |-> "ok",
                 before |-> << >>, at |-> now, result |-> getSecurityReport(auditLogs, now) ]
    /\ UNCHANGED <<districts, villages, housing_records, nextId, otherTables, auditLogs,
                   now, ops, pc, req>>

DaysPass ==
    /\ \E d \in DaySteps : now + d <= MaxDay /\ now' = now + d
    /\ UNCHANGED <<districts, villages, housing_records, nextId, otherTables, auditLogs,
                   ops, last, pc, req>>

NextSecurity ==
    \/ LogActivity
    \/ GetSecurityReport
    \/ DaysPass

SpecSecurity == Init /\ [][NextSecurity]_vars

\* the entries created at most d days before the last report was taken
entriesWithin(d) == {i \in 1..Len(auditLogs) : last.at - auditLogs[i].created_at <= d}

----------------------------------------------------------------------------
(* Analytics.  The clock counts months here, from January of BaseYear. *)

BaseYear == 2024

\* extract(year from created_at), extract(month from created_at)
yearOf(t) == BaseYear + (t \div 12)
monthOf(t) == (t % 12) + 1

\* count(housingRecordsTable.id) over the selected rows
rowCount(recs, ids) == Cardinality(ids)

\* sum(case when ... then 1 else 0 end) over the selected rows: NULL when there
\* is no row
sumCase(selected, matching) == IF selected = {} THEN NullN ELSE Cardinality(matching)

\* mutant: the aggregate is returned as the storage layer gave it
Number_asGiven(x) == x

\* Number(x) of an aggregate: 0 for null
Number(x) == IF x = NullN THEN 0 ELSE x

withStatus(recs, ids, status) == {id \in ids : recs[id].housing_status = status}
withVerification(recs, ids, status) == {id \in ids : recs[id].verification_status = status}

getDashboardStats(ds, vs, recs) ==
    LET all == DOMAIN recs
    IN  [ total_houses |-> rowCount(recs, all),
          rtlh_count |-> Number(sumCase(all, withStatus(recs, all, "RTLH"))),
          rlh_count |-> Number(sumCase(all, withStatus(recs, all, "RLH"))),
          pending_verification |-> Number(sumCase(all, withVerification(recs, all, "PENDING"))),
          districts_count |-> Cardinality(ds),
          villages_count |-> Cardinality(DOMAIN vs) ]

getVerificationStats(recs) ==
    LET all == DOMAIN recs
    IN  [ pending |-> Number(sumCase(all, withVerification(recs, all, "PENDING"))),
          verified |-> Number(sumCase(all, withVerification(recs, all, "VERIFIED"))),
          rejected |-> Number(sumCase(all, withVerification(recs, all, "REJECTED"))) ]

\* mutant: districts are inner-joined with their housing records
getHousingByDistrict_innerJoin(ds, recs) ==
    {[ district_id |-> d,
       rtlh_count |-> Cardinality(withStatus(recs, {id \in DOMAIN recs : recs[id].district_id = d}, "RTLH")),
       rlh_count |-> Cardinality(withStatus(recs, {id \in DOMAIN recs : recs[id].district_id = d}, "RLH")),
       total_count |-> Cardinality({id \in DOMAIN recs : recs[id].district_id = d}) ]
     : d \in {x \in ds : \E id \in DOMAIN recs : recs[id].district_id = x}}

\* districts left-joined with housing records on district_id, grouped by district
getHousingByDistrict(ds, recs) ==
    {LET joined == {id \in DOMAIN recs : recs[id].district_id = d}
     IN  [ district_id |-> d,
           rtlh_count |-> Number(sumCase({d}, withStatus(recs, joined, "RTLH"))),
           rlh_count |-> Number(sumCase({d}, withStatus(recs, joined, "RLH"))),
           total_count |-> rowCount(recs, joined) ]
     : d \in ds}

\* villages (of the district, when one is given) left-joined with housing
\* records on village_id, grouped by village
getHousingByVillage(vs, recs, districtId) ==
    {LET joined == {id \in DOMAIN recs : recs[id].village_id = v}
     IN  [ village_id |-> v,
           rtlh_count |-> Number(sumCase({v}, withStatus(recs, joined, "RTLH"))),
           rlh_count |-> Number(sumCase({v}, withStatus(recs, joined, "RLH"))),
           total_count |-> rowCount(recs, joined) ]
     : v \in {x \in DOMAIN vs : districtId # UndefN => vs[x] = districtId}}

\* mutant: the percentage is cut off, not rounded
percentage_floor(n, total) == IF total > 0 THEN (100 * n) \div total ELSE 0

\* total > 0 ? Math.round((n / total) * 100) : 0, halves rounded up
percentage(n, total) == IF total > 0 THEN (200 * n + total) \div (2 * total) ELSE 0

\* one row per eligibility_category that groups at least one record
getEligibilityDistribution(recs) ==
    LET total == rowCount(recs, DOMAIN recs)
        group(c) == {id \in DOMAIN recs : recs[id].eligibility_category = c}
    IN  {[ category |-> c,
           count |-> rowCount(recs, group(c)),
           percentage |-> percentage(rowCount(recs, group(c)), total) ]
         : c \in {recs[id].eligibility_category : id \in DOMAIN recs}}

\* mutant: only the months that group a record are returned
getMonthlyTrends_sparse(recs, year) ==
    LET inYear == {id \in DOMAIN recs : yearOf(recs[id].created_at) = year}
        group(m) == {id \in inYear : monthOf(recs[id].created_at) = m}
        months == {m \in 1..12 : group(m) # {}}
        nth[i \in 1..Cardinality(months)] ==
            CHOOSE m \in months : Cardinality({x \in months : x <= m}) = i
    IN  [i \in 1..Cardinality(months) |->
            [ month |-> nth[i],
              rtlh_created |-> Cardinality(withStatus(recs, group(nth[i]), "RTLH")),
              rlh_created |-> Cardinality(withStatus(recs, group(nth[i]), "RLH")),
              verified_count |-> Cardinality(withVerification(recs, group(nth[i]), "VERIFIED")) ]]

\* the records created in the year grouped by month, and the twelve rows built
\* from the groups, with zeros for a month without a group
getMonthlyTrends(recs, year) ==
    LET inYear == {id \in DOMAIN recs : yearOf(recs[id].created_at) = year}
        group(m) == {id \in inYear : monthOf(recs[id].created_at) = m}
    IN  [month \in 1..12 |->
            IF group(month) # {}
            THEN [ month |-> month,
                   rtlh_created |-> Number(sumCase(group(month), withStatus(recs, group(month), "RTLH"))),
                   rlh_created |-> Number(sumCase(group(month), withStatus(recs, group(month), "RLH"))),
                   verified_count |->
                       Number(sumCase(group(month), withVerification(recs, group(month), "VERIFIED"))) ]
            ELSE [ month |-> month, rtlh_created |-> 0, rlh_created |-> 0, verified_count |-> 0 ]]

----------------------------------------------------------------------------
(* The analytics routes as a system, over a store filled by the housing routes *)

MaxMonth == 12

\* months that pass between two calls
MonthSteps == {6}

AnalyticsNiks == Niks \cup {"3271010101010003"}

\* createHousingRecordInputSchema: RTLH records of district 1, village 1, of three
\* eligibility categories
AnalyticsCreateInputs ==
    [ head_of_household : {"Ani"},
      nik : AnalyticsNiks,
      housing_status : {"RTLH"},
      eligibility_category : {"POOR", "VERY_POOR", "MODERATE"},
      district_id : {1},
      village_id : {1},
      latitude : {UndefN},
      longitude : {UndefN},
      address : {"Jl. A"},
      phone : {UndefS},
      family_members : {4},
      monthly_income : {UndefN},
      house_condition_score : {UndefN},
      notes : {UndefS} ]

\* updateHousingRecordInputSchema: a new status, or a new village alone
AnalyticsUpdateInputs(id) ==
    {[emptyUpdate(id) EXCEPT !.housing_status = h] : h \in housingStatusEnum}
    \cup {[emptyUpdate(id) EXCEPT !.village_id = v] : v \in DOMAIN villages}

\* verifyHousingRecordInputSchema: a decision without notes
AnalyticsVerifyInputs(id) ==
    [ id : {id}, verification_status : {"VERIFIED", "REJECTED"}, notes : {UndefS} ]

\* analytics.getMonthlyTrends: { year }
YearInputs == {BaseYear, BaseYear + 1}

\* analytics.getHousingByVillage: { districtId? }
DistrictFilterInputs == {UndefN, 1, 2}

RegisterHousingRecord ==
    \E input \in AnalyticsCreateInputs, createdBy \in Editors :
        Call("create", input, createdBy,
             createHousingRecord(districts, villages, housing_records, nextId,
                                 input, createdBy, now))

ReviseHousingRecord ==
    \E id \in KnownIds, updatedBy \in Editors :
        \E input \in AnalyticsUpdateInputs(id) :
            Call("update", input, updatedBy,
                 updateHousingRecord(districts, villages, housing_records, nextId,
                                     input, updatedBy, now))

ReviewHousingRecord ==
    \E id \in KnownIds, verifiedBy \in Editors :
        \E input \in AnalyticsVerifyInputs(id) :
            Call("verify", input, verifiedBy,
                 verifyHousingRecord(housing_records, nextId, input, verifiedBy, now))

\* a query of the analytics router: the store is left as it is, the result is
\* kept in last
Query(op, input, result) ==
    /\ last' = [ op |-> op, input |-> input, by |-> NullN, outcome |-> "ok",
                 before |-> housing_records, result |-> result ]
    /\ UNCHANGED <<districts, villages, housing_records, nextId, otherTables, auditLogs,
                   now, ops, pc, req>>

GetDashboardStats ==
    Query("getDashboardStats", NoRow, getDashboardStats(districts, villages, housing_records))

GetVerificationStats ==
    Query("getVerificationStats", NoRow, getVerificationStats(housing_records))

GetHousingByDistrict ==
    Query("getHousingByDistrict", NoRow, getHousingByDistrict(districts, housing_records))

GetHousingByVillage ==
    \E districtId \in DistrictFilterInputs :
        Query("getHousingByVillage", [id |-> districtId],
              getHousingByVillage(villages, housing_records, districtId))

GetEligibilityDistribution ==
    Query("getEligibilityDistribution", NoRow, getEligibilityDistribution(housing_records))

GetMonthlyTrends ==
    \E year \in YearInputs :
        Query("getMonthlyTrends", [id |-> year], getMonthlyTrends(housing_records, year))

MonthsPass ==
    /\ ops < MaxOps
    /\ \E d \in MonthSteps : now + d <= MaxMonth /\ now' = now + d
    /\ UNCHANGED <<districts, villages, housing_records, nextId, otherTables, auditLogs,
                   ops, last, pc, req>>

NextAnalytics ==
    \/ RegisterHousingRecord
    \/ ReviseHousingRecord
    \/ ReviewHousingRecord
    \/ DeleteHousingRecord
    \/ MonthsPass
    \/ GetDashboardStats
    \/ GetVerificationStats
    \/ GetHousingByDistrict
    \/ GetHousingByVillage
    \/ GetEligibilityDistribution
    \/ GetMonthlyTrends

SpecAnalytics == Init /\ [][NextAnalytics]_vars

----------------------------------------------------------------------------
(* Analytics properties *)

\* the sum of a field over the rows of a sequence, and over the rows of a set
RECURSIVE SumOver(_, _)
SumOver(rows, field) ==
    IF rows = << >> THEN 0 ELSE Head(rows)[field] + SumOver(Tail(rows), field)

RECURSIVE SumOfSet(_, _)
SumOfSet(rows, field) ==
    IF rows = {}
    THEN 0
    ELSE LET row == CHOOSE r \in rows : TRUE
         IN  row[field] + SumOfSet(rows \ {row}, field)

\* the stored records created in the year of the last getMonthlyTrends query
createdInYear == {id \in Ids : yearOf(housing_records[id].created_at) = last.input.id}

\* C21: getMonthlyTrends returns twelve rows, for the months 1..12 in ascending
\* order; over the rows rtlh_created and rlh_created sum to the numbers of RTLH
\* and RLH records created in the year, and verified_count to the number of those
\* records that are VERIFIED.
C21_MonthlyTrendsTwelveRows ==
    Called("getMonthlyTrends")
    => /\ Len(last.result) = 12
       /\ \A m \in 1..12 : last.result[m].month = m
       /\ SumOver(last.result, "rtlh_created") =
              Cardinality({id \in createdInYear : housing_records[id].housing_status = "RTLH"})
       /\ SumOver(last.result, "rlh_created") =
              Cardinality({id \in createdInYear : housing_records[id].housing_status = "RLH"})
       /\ SumOver(last.result, "verified_count") =
              Cardinality({id \in createdInYear :
                              housing_records[id].verification_status = "VERIFIED"})

\* one verified record of the year, in July, and one record of the next year
C21_Witness ==
    /\ Called("getMonthlyTrends")
    /\ Cardinality(Ids) = 2
    /\ Cardinality(createdInYear) = 1
    /\ last.result[7].rtlh_created = 1
    /\ last.result[7].verified_count = 1
    /\ last.result[1].rtlh_created = 0

\* the stored records of an eligibility category
inCategory(c) == {id \in Ids : housing_records[id].eligibility_category = c}

\* C22: getEligibilityDistribution returns one row for each eligibility category
\* that has a stored record and no other row (none on an empty store); its count
\* is the number of records of the category and its percentage is
\* count / total * 100 rounded to the nearest integer.
C22_EligibilityDistribution ==
    Called("getEligibilityDistribution")
    => /\ {row.category : row \in last.result} =
              {c \in eligibilityCategoryEnum : inCategory(c) # {}}
       /\ Cardinality(last.result) = Cardinality({row.category : row \in last.result})
       /\ \A row \in last.result :
              /\ row.count = Cardinality(inCategory(row.category))
              /\ 200 * row.count - Cardinality(Ids) < 2 * row.percentage * Cardinality(Ids)
              /\ 2 * row.percentage * Cardinality(Ids) <= 200 * row.count + Cardinality(Ids)

\* three records of three categories: three rows of count 1 and percentage 33
C22_Witness ==
    /\ Called("getEligibilityDistribution")
    /\ Cardinality(Ids) = 3
    /\ Cardinality(last.result) = 3
    /\ \A row \in last.result : row.count = 1 /\ row.percentage = 33

\* the stored records of a district
inDistrict(d) == {id \in Ids : housing_records[id].district_id = d}

\* C23: getHousingByDistrict returns exactly one row for every district, also for
\* a district without records (all counts 0); total_count is the number of
\* records of the district and rtlh_count + rlh_count = total_count.
C23_OneRowPerDistrict ==
    Called("getHousingByDistrict")
    => /\ {row.district_id : row \in last.result} = districts
       /\ Cardinality(last.result) = Cardinality(districts)
       /\ \A row \in last.result :
              /\ row.total_count = Cardinality(inDistrict(row.district_id))
              /\ row.rtlh_count + row.rlh_count = row.total_count
              /\ row.rtlh_count =
                     Cardinality({id \in inDistrict(row.district_id) :
                                     housing_records[id].housing_status = "RTLH"})

\* a district with one RTLH and one RLH record and a district without records
C23_Witness ==
    /\ Called("getHousingByDistrict")
    /\ \E row \in last.result :
           row.district_id = 1 /\ row.rtlh_count = 1 /\ row.rlh_count = 1 /\ row.total_count = 2
    /\ \E row \in last.result :
           row.district_id = 2 /\ row.rtlh_count = 0 /\ row.rlh_count = 0 /\ row.total_count = 0

\* the stored records with a verification status
inVerification(status) == {id \in Ids : housing_records[id].verification_status = status}

\* C24: getDashboardStats returns the counts of all records, of the RTLH, the RLH
\* and the PENDING records, of the districts and of the villages, and
\* getVerificationStats the counts of the PENDING, VERIFIED and REJECTED records;
\* on an empty store every figure is the number 0.
C24_DashboardAndVerificationStats ==
    /\ Called("getDashboardStats")
       => last.result =
              [ total_houses |-> Cardinality(Ids),
                rtlh_count |-> Cardinality({id \in Ids : housing_records[id].housing_status = "RTLH"}),
                rlh_count |-> Cardinality({id \in Ids : housing_records[id].housing_status = "RLH"}),
                pending_verification |-> Cardinality(inVerification("PENDING")),
                districts_count |-> Cardinality(districts),
                villages_count |-> Cardinality(DOMAIN villages) ]
    /\ Called("getVerificationStats")
       => last.result =
              [ pending |-> Cardinality(inVerification("PENDING")),
                verified |-> Cardinality(inVerification("VERIFIED")),
                rejected |-> Cardinality(inVerification("REJECTED")) ]

\* the verification statistics of a store that a delete has emptied
C24_Witness ==
    /\ Called("getVerificationStats")
    /\ Ids = {}
    /\ nextId > 1
    /\ last.result = [pending |-> 0, verified |-> 0, rejected |-> 0]

----------------------------------------------------------------------------
(* Reading a record back: createHousingRecord followed by getHousingRecordById *)

\* the numbers the numeric columns hold in the model
Decimals == (-180..180) \cup {1500000, 2000000}

\* parseFloat of the decimal text of a numeric column
parseFloat(text) == CHOOSE n \in Decimals : ToString(n) = text

\* record.latitude ? parseFloat(record.latitude) : null
parsedOrNull(text) == IF TruthyS(text) THEN parseFloat(text) ELSE NullN

\* getHousingRecordById: null when no row has the id, otherwise the row with its
\* numeric columns parsed
getHousingRecordById(recs, id) ==
    IF id \notin DOMAIN recs
    THEN NoRow
    ELSE [recs[id] EXCEPT
             !.latitude = parsedOrNull(recs[id].latitude),
             !.longitude = parsedOrNull(recs[id].longitude),
             !.monthly_income = parsedOrNull(recs[id].monthly_income)]

\* create inputs that supply or omit each optional field
RoundTripInputs ==
    [ head_of_household : {"Ani"},
      nik : Niks,
      housing_status : {"RTLH"},
      eligibility_category : {"POOR"},
      district_id : {1},
      village_id : {1},
      latitude : {UndefN, 0},
      longitude : {105},
      address : {"Jl. A"},
      phone : {UndefS, "", "0812"},
      family_members : {4},
      monthly_income : {1500000},
      house_condition_score : {UndefN, 0, 100},
      notes : {UndefS, "atap bocor"} ]

SubmitHousingRecord ==
    \E input \in RoundTripInputs, createdBy \in Editors :
        Call("create", input, createdBy,
             createHousingRecord(districts, villages, housing_records, nextId,
                                 input, createdBy, now))

GetHousingRecordById ==
    \E id \in KnownIds :
        Query("getById", [id |-> id], getHousingRecordById(housing_records, id))

NextRoundTrip == SubmitHousingRecord \/ GetHousingRecordById

SpecRoundTrip == Init /\ [][NextRoundTrip]_vars

\* the id of the record the last call inserted
createdId == CHOOSE id \in Ids : id \notin DOMAIN last.before

\* what an optional input reads back as: null when omitted, itself otherwise
readBackN(x) == IF x = UndefN THEN NullN ELSE x
readBackS(x) == IF x = UndefS THEN NullS ELSE x

\* C25: after a successful createHousingRecord, getHousingRecordById of the new
\* record returns every supplied optional field as given (every
\* house_condition_score, 0 included, every phone and notes string, the numeric
\* fields) and null for every omitted one.
C25_CreateReadsBackAsGiven ==
    Succeeded("create")
    => LET got == getHousingRecordById(housing_records, createdId)
       IN  /\ got.house_condition_score = readBackN(last.input.house_condition_score)
           /\ got.phone = readBackS(last.input.phone)
           /\ got.notes = readBackS(last.input.notes)
           /\ got.latitude = readBackN(last.input.latitude)
           /\ got.longitude = readBackN(last.input.longitude)
           /\ got.monthly_income = readBackN(last.input.monthly_income)

----------------------------------------------------------------------------
(* Coordinates *)

\* the columns updateHousingCoordinates writes
coordinateColumns == {"latitude", "longitude", "updated_at"}

\* C26: updateHousingCoordinates on an existing record changes only its latitude,
\* longitude and updated_at, so a VERIFIED record stays VERIFIED, and leaves every
\* other record alone; on a missing id it fails with a not-found error and
\* changes nothing.
C26_CoordinatesChangeOnlyCoordinates ==
    Called("updateCoordinates")
    => IF last.input.id \in DOMAIN last.before
       THEN /\ last.outcome = "ok"
            /\ DOMAIN housing_records = DOMAIN last.before
            /\ \A id \in Ids \ {last.input.id} : housing_records[id] = last.before[id]
            /\ \A f \in DOMAIN rowBefore \ coordinateColumns : rowAfter[f] = rowBefore[f]
            /\ rowAfter.latitude = ToString(last.input.latitude)
            /\ rowAfter.longitude = ToString(last.input.longitude)
       ELSE /\ last.outcome = "Housing record with ID ${housingRecordId} not found"
            /\ housing_records = last.before

\* a VERIFIED record whose coordinates the call moved
C26_Witness ==
    /\ Succeeded("updateCoordinates")
    /\ rowBefore.verification_status = "VERIFIED"
    /\ rowAfter.verification_status = "VERIFIED"
    /\ rowAfter.verified_by = rowBefore.verified_by
    /\ rowAfter.latitude # rowBefore.latitude

----------------------------------------------------------------------------
(* Verification state and creation-time fields *)

\* C27: in every reachable state a record whose verification_status is PENDING
\* has verified_by = null and verified_at = null.
C27_PendingHasNoVerifier ==
    \A id \in Ids :
        housing_records[id].verification_status = "PENDING"
        => /\ housing_records[id].verified_by = NullN
           /\ housing_records[id].verified_at = NullN

\* the fields a record keeps from its creation
creationFields == {"id", "nik", "created_by", "created_at"}

\* C29: updateHousingRecord, verifyHousingRecord and updateHousingCoordinates
\* leave the id, nik, created_by and created_at of every record as they were.
C29_CreationFieldsKept ==
    (Called("update") \/ Called("verify") \/ Called("updateCoordinates"))
    => /\ Ids = DOMAIN last.before
       /\ \A id \in Kept : \A f \in creationFields :
              housing_records[id][f] = last.before[id][f]

\* a record created by one user at one time and verified by another user later
C29_Witness ==
    /\ Succeeded("verify")
    /\ rowAfter.created_by # rowAfter.verified_by
    /\ rowAfter.created_at < rowAfter.verified_at
    /\ rowAfter.created_by = rowBefore.created_by
    /\ rowAfter.created_at = rowBefore.created_at

----------------------------------------------------------------------------
(* Per-village and per-district totals *)

\* the total_count getHousingByDistrict reports for a district
districtTotal(d) ==
    LET row == CHOOSE r \in getHousingByDistrict(districts, housing_records) :
                   r.district_id = d
    IN  row.total_count

\* C30: in every reachable state and for every district, total_count summed over
\* the rows of getHousingByVillage of the district equals the total_count
\* getHousingByDistrict reports for the district.
C30_VillageTotalsMatchDistrictTotal ==
    \A d \in districts :
        SumOfSet(getHousingByVillage(villages, housing_records, d), "total_count")
            = districtTotal(d)

----------------------------------------------------------------------------
(* verifyHousingRecord as its two statements, running beside other calls *)

\* the columns the .set() of verifyHousingRecord names
verifyColumns == {"verification_status", "verified_by", "verified_at", "notes", "updated_at"}

\* the UPDATE of verifyHousingRecord: the named columns are computed from the
\* input and from existingRecord, the row the SELECT returned earlier; when the
\* row is gone nothing is updated and reading results[0] throws
writeVerification(recs, nid, existingRecord, input, verifiedBy, t) ==
    IF input.id \notin DOMAIN recs
    THEN Failed(recs, nid, "TypeError")
    ELSE LET values == verifyValues(existingRecord, input, verifiedBy, t)
         IN  [ recs |-> [recs EXCEPT ![input.id] =
                            [f \in DOMAIN recs[input.id] |->
                                IF f \in verifyColumns THEN values[f] ELSE recs[input.id][f]]],
               nextId |-> nid,
               outcome |-> "ok" ]

\* updates that set or clear the notes
NotesUpdates(id) == {[emptyUpdate(id) EXCEPT !.notes = n] : n \in {"revised", NullS}}

\* the SELECT of verifyHousingRecord: the call throws when there is no row
BeginVerify(p) ==
    /\ pc[p] = "idle"
    /\ ops < MaxOps
    /\ ops' = ops + 1
    /\ \E id \in KnownIds, verifiedBy \in Editors :
           \E input \in VerifyInputs(id) :
               IF id \in DOMAIN housing_records
               THEN /\ req' = [req EXCEPT ![p] =
                                  [ op |-> "verify", input |-> input, by |-> verifiedBy,
                                    outcome |-> "pending", before |-> housing_records ]]
                    /\ pc' = [pc EXCEPT ![p] = "write"]
                    /\ UNCHANGED last
               ELSE /\ last' = [ op |-> "verify", input |-> input, by |-> verifiedBy,
                                 outcome |-> "Housing record not found",
                                 before |-> housing_records ]
                    /\ UNCHANGED <<pc, req>>
    /\ UNCHANGED <<districts, villages, housing_records, nextId, otherTables, auditLogs, now>>

\* the UPDATE of verifyHousingRecord
WriteVerify(p) ==
    /\ pc[p] = "write"
    /\ LET r == writeVerification(housing_records, nextId,
                                  req[p].before[req[p].input.id], req[p].input,
                                  req[p].by, now)
       IN  /\ housing_records' = r.recs
           /\ req' = [req EXCEPT ![p].outcome = r.outcome]
           /\ last' = [ op |-> "verify", input |-> req[p].input, by |-> req[p].by,
                        outcome |-> r.outcome, before |-> housing_records ]
    /\ pc' = [pc EXCEPT ![p] = "idle"]
    /\ UNCHANGED <<districts, villages, nextId, otherTables, auditLogs, now, ops>>

AnnotateHousingRecord ==
    \E id \in KnownIds, updatedBy \in Editors :
        \E input \in NotesUpdates(id) :
            Call("update", input, updatedBy,
                 updateHousingRecord(districts, villages, housing_records, nextId,
                                     input, updatedBy, now))

NextRace ==
    \/ CreateHousingRecord
    \/ AnnotateHousingRecord
    \/ DeleteHousingRecord
    \/ \E p \in Calls : BeginVerify(p) \/ WriteVerify(p)

SpecRace == Init /\ [][NextRace]_vars

\* C28: a verifyHousingRecord without notes leaves the notes of the record as
\* they were when it wrote, whatever ran between its read and its write: notes
\* that an update stored in between are still stored afterwards.
C28_VerifyWithoutNotesKeepsNotes ==
    (Succeeded("verify") /\ last.input.notes = UndefS)
    => rowAfter.notes = rowBefore.notes

====
